---- MODULE Spec2Model ----
(***************************************************************************)
(* A model of dolo/algos/steady_state.py: find_steady_state and the        *)
(* script that calls it several times in succession.                       *)
(*                                                                         *)
(* Numbers are integers (the example models below are affine or bilinear   *)
(* with integer coefficients, so forward differences of step 1 are exact). *)
(* A not-a-number entry of a positional force vector is an entry with      *)
(* fin = FALSE.  Python's 0-based index i is the 1-based position i+1.     *)
(***************************************************************************)
EXTENDS Integers, Sequences, FiniteSets, TLC

\* ------------------------------------------------------------------ bounds
GridMax == 2          \* the solver searches the box -GridMax..GridMax
MaxIter == 1          \* iteration budget of the root solver
MaxForceLen == 3      \* longest positional force vector the caller passes
MaxDictLen == 2       \* largest force mapping the caller passes
ForceTarget == 1      \* the target value the caller pins states to
MaxCalls == 2         \* calls the script makes in succession

\* ------------------------------------------------------- small vector helpers
RECURSIVE SumSeq(_)
SumSeq(q) == IF q = <<>> THEN 0 ELSE Head(q) + SumSeq(Tail(q))

RECURSIVE Flatten(_)
Flatten(rows) == IF rows = <<>> THEN <<>> ELSE Head(rows) \o Flatten(Tail(rows))

Zeros(n) == [i \in 1..n |-> 0]
Ones(n) == [i \in 1..n |-> 1]

VecSub(a, b) == [i \in 1..Len(a) |-> a[i] - b[i]]

\* z[:n] and z[n:]
Take(z, n) == SubSeq(z, 1, n)
Drop(z, n) == SubSeq(z, n + 1, Len(z))

\* list.index(k): the first position holding k, 0 when k is absent
IndexOf(names, k) ==
    IF \E i \in 1..Len(names) : names[i] = k
    THEN CHOOSE i \in 1..Len(names) :
            names[i] = k /\ \A j \in 1..(i - 1) : names[j] # k
    ELSE 0

\* ------------------------------------------------------------ example models
\* The Model collaborator: symbols, calibration and the two functions.
StateNames == <<"a", "b">>
ControlNames == <<"c">>
ShockNames == <<"u">>

ModelNames == {"stable", "unitroot", "bilinear"}

Symbols(m) == [states |-> StateNames, controls |-> ControlNames, shocks |-> ShockNames]

Calibration(m) ==
    [states |-> <<0, 0>>,
     controls |-> IF m = "bilinear" THEN <<1>> ELSE <<0>>,
     parameters |-> <<1>>]

\* model.functions['transition'](s, x, e, p)
Transition(m, s, x, e, p) ==
    CASE m = "stable"   -> <<e[1] + p[1], s[1]>>
      [] m = "unitroot" -> <<s[1] + e[1], s[1]>>
      [] m = "bilinear" -> <<s[1] * x[1] + e[1], s[1]>>

\* model.functions['arbitrage'](s, x, S, X, p)
Arbitrage(m, s, x, S, X, p) ==
    CASE m = "stable"   -> <<X[1] - S[2]>>
      [] m = "unitroot" -> <<X[1] - S[2]>>
      [] m = "bilinear" -> <<X[1] - p[1]>>

\* ------------------------------------------------------- equation assembler
\* The closure variables of fobj that the force normalisation binds (or not).
UnboundInds == [bound |-> FALSE, v |-> <<>>]
UnboundVals == [kind |-> "unbound", v |-> <<>>]

\* S[inds]: fancy indexing by a list/array of (1-based) positions
FancyIndex(S, inds) == [k \in 1..Len(inds) |-> S[inds[k]]]

\* S[inds] - vals (line 41), for the kinds of vals that support it:
\* a scalar broadcasts, a list subtracts elementwise
SubVals(picked, vals) ==
    [k \in 1..Len(picked) |->
        picked[k] - (IF vals.kind = "scalar" THEN vals.v[1] ELSE vals.v[k])]

\* What line 41 raises, "" when it raises nothing.  The name lookup comes
\* first, then the indexing, then the subtraction.
AddError(S, inds, vals) ==
    IF ~inds.bound THEN "NameError"
    ELSE IF \E k \in 1..Len(inds.v) : inds.v[k] > Len(S) THEN "IndexError"
    ELSE IF vals.kind = "view" THEN "TypeError"
    ELSE ""

\* fobj with the two base blocks in the wrong order
FobjSwapped(m, ns, e, p, forced, inds, vals, z) ==
    LET s == Take(z, ns)
        x == Drop(z, ns)
        S == Transition(m, s, x, e, p)
        r == Arbitrage(m, s, x, s, x, p)
        res == r \o VecSub(S, s)
    IN  IF ~forced THEN [exc |-> "", res |-> res]
        ELSE IF AddError(S, inds, vals) # ""
             THEN [exc |-> AddError(S, inds, vals), res |-> <<>>]
             ELSE [exc |-> "", res |-> res \o SubVals(FancyIndex(S, inds.v), vals)]

\* fobj that never appends the constraint rows
FobjNoForce(m, ns, e, p, forced, inds, vals, z) ==
    LET s == Take(z, ns)
        x == Drop(z, ns)
        S == Transition(m, s, x, e, p)
        r == Arbitrage(m, s, x, s, x, p)
    IN  [exc |-> "", res |-> VecSub(S, s) \o r]

\* fobj(z) (lines 34-43): exc names the exception the evaluation raises at
\* line 41 ("" when it returns), res is the returned residual.
Fobj(m, ns, e, p, forced, inds, vals, z) ==
    LET s == Take(z, ns)
        x == Drop(z, ns)
        S == Transition(m, s, x, e, p)
        r == Arbitrage(m, s, x, s, x, p)
        res == VecSub(S, s) \o r
    IN  IF ~forced THEN [exc |-> "", res |-> res]
        ELSE IF AddError(S, inds, vals) # ""
             THEN [exc |-> AddError(S, inds, vals), res |-> <<>>]
             ELSE [exc |-> "", res |-> res \o SubVals(FancyIndex(S, inds.v), vals)]

\* ------------------------------------------------------- jacobian estimator
Bump(z, j) == [i \in 1..Len(z) |-> IF i = j THEN z[i] + 1 ELSE z[i]]

\* MyJacobian(f)(z): forward differences, one column per coordinate of z.
\* fz is f(z) and fcol[j] is f(z + e_j); the result is a sequence of rows.
MyJacobian(fz, fcol, n) ==
    [i \in 1..Len(fz) |-> [j \in 1..n |-> fcol[j][i] - fz[i]]]

\* --------------------------------------------------------- rank diagnostic
RemoveAt(q, k) == SubSeq(q, 1, k - 1) \o SubSeq(q, k + 1, Len(q))

RECURSIVE Det(_)
Det(M) ==
    IF Len(M) = 0 THEN 1
    ELSE LET cof(j) == (IF j % 2 = 1 THEN 1 ELSE -1) * M[1][j]
                       * Det([i \in 1..(Len(M) - 1) |-> RemoveAt(M[i + 1], j)])
             RECURSIVE Acc(_)
             Acc(j) == IF j = 0 THEN 0 ELSE cof(j) + Acc(j - 1)
         IN  Acc(Len(M))

\* the increasing sequence listing a finite set of naturals
RECURSIVE SortedSeq(_)
SortedSeq(S) ==
    IF S = {} THEN <<>>
    ELSE LET lo == CHOOSE a \in S : \A b \in S : a <= b
         IN  <<lo>> \o SortedSeq(S \ {lo})

Minor(M, R, C) ==
    LET rs == SortedSeq(R)
        cs == SortedSeq(C)
    IN  [i \in 1..Len(rs) |-> [j \in 1..Len(cs) |-> M[rs[i]][cs[j]]]]

\* numpy.linalg.matrix_rank(jac): the order of the largest non-vanishing minor
MatrixRank(M, n) ==
    LET ok(k) == \E R \in SUBSET (1..Len(M)) : \E C \in SUBSET (1..n) :
                    /\ Cardinality(R) = k
                    /\ Cardinality(C) = k
                    /\ Det(Minor(M, R, C)) # 0
    IN  CHOOSE k \in 0..n : ok(k) /\ \A k2 \in (k + 1)..n : ~ok(k2)

RankDeficientLeq(rank, n) == rank <= n

\* rank < len(z) (line 52)
RankDeficient(rank, n) == rank < n

\* --------------------------------------------------------------- root solver
Grid == (0 - GridMax)..GridMax

Ssq(res) == SumSeq([i \in 1..Len(res) |-> res[i] * res[i]])

LexLess(a, b) ==
    \E i \in 1..Len(a) : a[i] < b[i] /\ \A j \in 1..(i - 1) : a[j] = b[j]

\* the trial points of one damped step: the grid points within sup-distance 1
Box(x) ==
    {y \in [1..Len(x) -> Grid] :
        \A i \in 1..Len(x) : y[i] - x[i] \in {-1, 0, 1}}


\* the trial point a step moves to: least sum of squares, ties broken
\* lexicographically, so the iteration is a function of its start
BestTrial(m, ns, e, p, forced, inds, vals, x) ==
    LET f(y) == Ssq(Fobj(m, ns, e, p, forced, inds, vals, y).res)
    IN  CHOOSE y \in Box(x) :
            \A w \in Box(x) : f(y) < f(w) \/ (f(y) = f(w) /\ (y = w \/ LexLess(y, w)))

\* ------------------------------------------------- arguments of one call
NaN == [fin |-> FALSE, v |-> 0]
Finite(v) == [fin |-> TRUE, v |-> v]

NoShocks == [given |-> FALSE, rows |-> <<>>]
GivenShocks(vec) == [given |-> TRUE, rows |-> <<vec>>]

NoForce == [kind |-> "none", pos |-> <<>>, map |-> <<>>]

\* the shock vectors the caller passes: None, or one value per shock symbol
ShockArgs ==
    {NoShocks} \cup {GivenShocks(vec) : vec \in [1..Len(ShockNames) -> {0, 1}]}

PosVectors ==
    UNION {[1..n -> {NaN, Finite(ForceTarget)}] : n \in 1..MaxForceLen}

\* "q" is not a state symbol
KeyNames == {"a", "b", "q"}

\* a mapping in its iteration order: pairs with pairwise distinct keys
Mappings ==
    UNION {{mp \in [1..n -> [k : KeyNames, v : {ForceTarget}]] :
              \A i, j \in 1..n : i # j => mp[i].k # mp[j].k} : n \in 1..MaxDictLen}

ForceArgs ==
    {NoForce}
    \cup {[kind |-> "list", pos |-> q, map |-> <<>>] : q \in PosVectors}
    \cup {[kind |-> "array", pos |-> q, map |-> <<>>] : q \in PosVectors}
    \cup {[kind |-> "dict", pos |-> <<>>, map |-> mp] : mp \in Mappings}

AllArgs == [e : ShockArgs, force : ForceArgs, rj : BOOLEAN]

\* The index -> target constraints a force specification describes when it
\* is well formed (a positional vector of the state count, a mapping of
\* state names); the set is empty for None.
WellFormed(force, names) ==
    CASE force.kind = "none" -> TRUE
      [] force.kind \in {"list", "array"} -> Len(force.pos) = Len(names)
      [] force.kind = "dict" ->
            \A i \in 1..Len(force.map) : IndexOf(names, force.map[i].k) # 0

Constraints(force, names) ==
    CASE force.kind = "none" -> {}
      [] force.kind \in {"list", "array"} ->
            {<<i, force.pos[i].v>> : i \in {j \in 1..Len(force.pos) : force.pos[j].fin}}
      [] force.kind = "dict" ->
            {<<IndexOf(names, force.map[i].k), force.map[i].v>> : i \in 1..Len(force.map)}

IsZeroShock(ea, n) == ea.given /\ Flatten(ea.rows) = Zeros(n)

SameShocks(e1, e2, n) ==
    \/ e1 = e2
    \/ (~e1.given /\ IsZeroShock(e2, n))
    \/ (~e2.given /\ IsZeroShock(e1, n))

SameForce(f1, f2, names) ==
    \/ f1 = f2
    \/ /\ f1.kind # "none" /\ f2.kind # "none"
       /\ WellFormed(f1, names) /\ WellFormed(f2, names)
       /\ Constraints(f1, names) = Constraints(f2, names)

\* The arguments of a follow-up call that asks the same question as `a`:
\* the same call again, or the same shocks / constraints written another way.
Related(a, m) ==
    {b \in AllArgs :
        /\ b.rj = a.rj
        /\ SameShocks(a.e, b.e, Len(Symbols(m).shocks))
        /\ SameForce(a.force, b.force, Symbols(m).states)}

\* ------------------------------------------------- steps of find_steady_state
\* numpy.zeros(len(model.symbols['shocks'])) replaced by ones
DefaultShocksOnes(m) == Ones(Len(Symbols(m).shocks))

\* line 22
DefaultShocks(m) == Zeros(Len(Symbols(m).shocks))

\* e.ravel() (line 24)
Ravel(rows) == Flatten(rows)

\* numpy.where(numpy.isfinite(force_values))[0]
FinitePositions(pos) == SortedSeq({i \in 1..Len(pos) : pos[i].fin})

\* [model.symbols['states'].index(k) for k in force_values.keys()]
KeyPositions(mp, names) == [i \in 1..Len(mp) |-> IndexOf(names, mp[i].k)]

\* a normalisation that silently drops the names that are no state symbols
NormaliseForceLenient(force, names, rt) ==
    LET known == SelectSeq(force.map, LAMBDA kv : IndexOf(names, kv.k) # 0)
    IN
    CASE force.kind = "dict" ->
            [exc |-> "",
             inds |-> [bound |-> TRUE, v |-> KeyPositions(known, names)],
             vals |-> [kind |-> IF rt.dictValuesList THEN "list" ELSE "view",
                       v |-> [i \in 1..Len(known) |-> known[i].v]]]
      [] force.kind = "list" ->
            LET idx == FinitePositions(force.pos)
            IN  IF Len(idx) = 1 /\ rt.oneElemIndex
                THEN [exc |-> "",
                      inds |-> [bound |-> TRUE, v |-> idx],
                      vals |-> [kind |-> "scalar", v |-> <<force.pos[idx[1]].v>>]]
                ELSE [exc |-> "TypeError", inds |-> UnboundInds, vals |-> UnboundVals]
      [] OTHER -> [exc |-> "", inds |-> UnboundInds, vals |-> UnboundVals]

\* Lines 26-32.  exc names the exception raised ("" when none), inds and vals
\* are the closure variables as the block leaves them.
\*  - list/tuple: vals = force_values[inds] indexes a Python list with an
\*    index array.  An array of one integer converts to an index only on a
\*    numpy that still allows it (rt.oneElemIndex); every other array raises
\*    TypeError.
\*  - dict: list.index raises ValueError on the first name that is no state
\*    symbol; vals is a list on a Python whose dict.values() returns a list
\*    (rt.dictValuesList) and a view otherwise.
\*  - any other object (an ndarray): neither branch runs, nothing is bound.
NormaliseForce(force, names, rt) ==
    CASE force.kind = "dict" ->
            IF \E i \in 1..Len(force.map) : IndexOf(names, force.map[i].k) = 0
            THEN [exc |-> "ValueError", inds |-> UnboundInds, vals |-> UnboundVals]
            ELSE [exc |-> "",
                  inds |-> [bound |-> TRUE, v |-> KeyPositions(force.map, names)],
                  vals |-> [kind |-> IF rt.dictValuesList THEN "list" ELSE "view",
                            v |-> [i \in 1..Len(force.map) |-> force.map[i].v]]]
      [] force.kind = "list" ->
            LET idx == FinitePositions(force.pos)
            IN  IF Len(idx) = 1 /\ rt.oneElemIndex
                THEN [exc |-> "",
                      inds |-> [bound |-> TRUE, v |-> idx],
                      vals |-> [kind |-> "scalar", v |-> <<force.pos[idx[1]].v>>]]
                ELSE [exc |-> "TypeError", inds |-> UnboundInds, vals |-> UnboundVals]
      [] OTHER -> [exc |-> "", inds |-> UnboundInds, vals |-> UnboundVals]

\* what the call hands back
NoOutcome == [kind |-> "none", exc |-> "", s |-> <<>>, x |-> <<>>, jac |-> <<>>]
Raised(exc) == [kind |-> "raise", exc |-> exc, s |-> <<>>, x |-> <<>>, jac |-> <<>>]

\* lines 58-60: [steady_state[:len(s0)], steady_state[len(s0):]]; the
\* solver's terminal state (sol.success) is not read
ReturnValue(ns, solx, status) ==
    [kind |-> "pair", exc |-> "", s |-> Take(solx, ns), x |-> Drop(solx, ns), jac |-> <<>>]

\* --------------------------------------------------------------- the state
VARIABLES
    runtime,      \* what the installed Python / numpy do where they differ
    model,        \* the model the script loaded
    calibration,  \* model.calibration
    callNo,       \* calls started so far
    pc,           \* position inside find_steady_state ("idle" before a call)
    args,         \* e, force_values, return_jacobian of the running call
    s0, x0, p, z, \* lines 16-19
    e,            \* the shock vector after lines 21-24
    inds, vals,   \* closure variables bound by lines 26-32
    fz,           \* fobj(z) as first evaluated by the Jacobian estimator
    jac,          \* line 46
    rank,         \* line 51
    warned,       \* warnings.warn was called (line 54)
    work,         \* the numeric work the running call has done so far
    solverState,  \* state machine of the root solver
    sol_x,        \* the solver's iterate, sol.x at the end
    iter,         \* steps the solver has taken
    outcome,      \* what the call returned or raised
    prev          \* arguments and outcome of the previous call

locals == <<s0, x0, p, z, e, inds, vals, fz, jac, rank, warned>>
solver == <<solverState, sol_x, iter>>
vars == <<runtime, model, calibration, callNo, pc, args, locals, work,
          solver, outcome, prev>>

NoArgs == [e |-> NoShocks, force |-> NoForce, rj |-> FALSE]

NoPrev == [valid |-> FALSE, args |-> NoArgs, outcome |-> NoOutcome, fz |-> <<>>,
           jac |-> <<>>, warned |-> FALSE, e |-> <<>>, status |-> "None"]

Forced == args.force.kind # "none"
NS == Len(s0)
N == Len(z)

\* fobj of the running call
F(y) == Fobj(model, NS, e, p, Forced, inds, vals, y)

Init ==
    /\ runtime \in [oneElemIndex : BOOLEAN, dictValuesList : BOOLEAN]
    /\ model \in ModelNames
    /\ calibration = Calibration(model)
    /\ callNo = 0
    /\ pc = "idle"
    /\ args = NoArgs
    /\ s0 = <<>> /\ x0 = <<>> /\ p = <<>> /\ z = <<>> /\ e = <<>>
    /\ inds = UnboundInds /\ vals = UnboundVals
    /\ fz = <<>> /\ jac = <<>> /\ rank = 0 /\ warned = FALSE
    /\ work = {}
    /\ solverState = "None" /\ sol_x = <<>> /\ iter = 0
    /\ outcome = NoOutcome
    /\ prev = NoPrev

\* The script calls find_steady_state (lines 72-84): a first call with any
\* arguments, then the same question again, possibly written another way
\* (lines 83 and 84 pass the same constraint as a list and as a mapping).
Call ==
    /\ pc \in {"idle", "done"}
    /\ callNo < MaxCalls
    /\ \E a \in (IF pc = "idle" THEN AllArgs ELSE Related(args, model)) : args' = a
    /\ prev' = IF pc = "idle" THEN NoPrev
               ELSE [valid |-> TRUE, args |-> args, outcome |-> outcome, fz |-> fz,
                     jac |-> jac, warned |-> warned, e |-> e, status |-> solverState]
    /\ callNo' = callNo + 1
    /\ pc' = "l16"
    /\ s0' = <<>> /\ x0' = <<>> /\ p' = <<>> /\ z' = <<>> /\ e' = <<>>
    /\ inds' = UnboundInds /\ vals' = UnboundVals
    /\ fz' = <<>> /\ jac' = <<>> /\ rank' = 0 /\ warned' = FALSE
    /\ work' = {}
    /\ solverState' = "None" /\ sol_x' = <<>> /\ iter' = 0
    /\ outcome' = NoOutcome
    /\ UNCHANGED <<runtime, model, calibration>>

\* lines 16-19: the initial guess is a fresh concatenation of the calibration
ReadCalibration ==
    /\ pc = "l16"
    /\ s0' = calibration.states
    /\ x0' = calibration.controls
    /\ p' = calibration.parameters
    /\ z' = calibration.states \o calibration.controls
    /\ pc' = "l21"
    /\ UNCHANGED <<runtime, model, calibration, callNo, args, e, inds, vals, fz,
                   jac, rank, warned, work, solver, outcome, prev>>

\* lines 21-24
NormaliseShocks ==
    /\ pc = "l21"
    /\ e' = IF ~args.e.given THEN DefaultShocks(model) ELSE Ravel(args.e.rows)
    /\ pc' = "l26"
    /\ UNCHANGED <<runtime, model, calibration, callNo, args, s0, x0, p, z, inds,
                   vals, fz, jac, rank, warned, work, solver, outcome, prev>>

\* lines 26-32
NormaliseForceValues ==
    /\ pc = "l26"
    /\ LET nf == NormaliseForce(args.force, Symbols(model).states, runtime)
       IN  /\ inds' = nf.inds
           /\ vals' = nf.vals
           /\ IF nf.exc # ""
              THEN outcome' = Raised(nf.exc) /\ pc' = "done"
              ELSE outcome' = outcome /\ pc' = "l45"
    /\ UNCHANGED <<runtime, model, calibration, callNo, args, s0, x0, p, z, e, fz,
                   jac, rank, warned, work, solver, prev>>

\* lines 45-46: MyJacobian(fobj)(z).  The first evaluation of fobj runs
\* transition and arbitrage (lines 37-38) before line 41 can raise.
EstimateJacobian ==
    /\ pc = "l45"
    /\ IF F(z).exc # ""
       THEN /\ outcome' = Raised(F(z).exc)
            /\ work' = work \cup {"transition", "arbitrage"}
            /\ pc' = "done"
            /\ UNCHANGED <<fz, jac>>
       ELSE /\ fz' = F(z).res
            /\ jac' = MyJacobian(F(z).res, [j \in 1..N |-> F(Bump(z, j)).res], N)
            /\ work' = work \cup {"transition", "arbitrage", "jacobian"}
            /\ pc' = "l47"
            /\ UNCHANGED outcome
    /\ UNCHANGED <<runtime, model, calibration, callNo, args, s0, x0, p, z, e, inds,
                   vals, rank, warned, solver, prev>>

\* the return placed after the rank diagnostic instead of before it
ReturnJacobianLate ==
    /\ pc = "l47"
    /\ args.rj
    /\ rank' = MatrixRank(jac, N)
    /\ warned' = RankDeficient(MatrixRank(jac, N), N)
    /\ work' = work \cup {"rank"}
    /\ outcome' = [kind |-> "jac", exc |-> "", s |-> <<>>, x |-> <<>>, jac |-> jac]
    /\ pc' = "done"
    /\ UNCHANGED <<runtime, model, calibration, callNo, args, s0, x0, p, z, e, inds,
                   vals, fz, jac, solver, prev>>

\* lines 47-48
ReturnJacobian ==
    /\ pc = "l47"
    /\ args.rj
    /\ outcome' = [kind |-> "jac", exc |-> "", s |-> <<>>, x |-> <<>>, jac |-> jac]
    /\ pc' = "done"
    /\ UNCHANGED <<runtime, model, calibration, callNo, args, locals, work, solver, prev>>

\* lines 51-54
RankDiagnostic ==
    /\ pc = "l47"
    /\ ~args.rj
    /\ rank' = MatrixRank(jac, N)
    /\ warned' = RankDeficient(MatrixRank(jac, N), N)
    /\ work' = work \cup {"rank"}
    /\ pc' = "l56"
    /\ UNCHANGED <<runtime, model, calibration, callNo, args, s0, x0, p, z, e, inds,
                   vals, fz, jac, solver, outcome, prev>>

\* lines 56-57: root(fobj, z, method='lm') starts from z
SolverStart ==
    /\ pc = "l56"
    /\ solverState' = "Initialized"
    /\ sol_x' = z
    /\ iter' = 0
    /\ work' = work \cup {"solver"}
    /\ pc' = "solve"
    /\ UNCHANGED <<runtime, model, calibration, callNo, args, locals, outcome, prev>>

Running == pc = "solve" /\ solverState \in {"Initialized", "Iterating"}
AtRoot == Ssq(F(sol_x).res) = 0
Improvable == \E y \in Box(sol_x) : Ssq(F(y).res) < Ssq(F(sol_x).res)

\* one accepted step of the iteration
SolverStep ==
    /\ Running
    /\ ~AtRoot /\ Improvable /\ iter < MaxIter
    /\ sol_x' = BestTrial(model, NS, e, p, Forced, inds, vals, sol_x)
    /\ iter' = iter + 1
    /\ solverState' = "Iterating"
    /\ UNCHANGED <<runtime, model, calibration, callNo, pc, args, locals, work,
                   outcome, prev>>

\* the tolerance tests pass: at a root, or where no step reduces the residual
SolverConverged ==
    /\ Running
    /\ AtRoot \/ ~Improvable
    /\ solverState' = "Converged"
    /\ pc' = "l58"
    /\ UNCHANGED <<runtime, model, calibration, callNo, args, locals, work, sol_x,
                   iter, outcome, prev>>

\* no step reduces the residual and the tolerance is not met
SolverStagnated ==
    /\ Running
    /\ ~AtRoot /\ ~Improvable
    /\ solverState' = "StepStagnated"
    /\ pc' = "l58"
    /\ UNCHANGED <<runtime, model, calibration, callNo, args, locals, work, sol_x,
                   iter, outcome, prev>>

\* the iteration budget is spent
SolverMaxIter ==
    /\ Running
    /\ ~AtRoot /\ Improvable /\ iter >= MaxIter
    /\ solverState' = "MaxIterationsExceeded"
    /\ pc' = "l58"
    /\ UNCHANGED <<runtime, model, calibration, callNo, args, locals, work, sol_x,
                   iter, outcome, prev>>

\* a return that also stores the solution as the model's calibration
ReturnStoresCalibration ==
    /\ pc = "l58"
    /\ outcome' = ReturnValue(NS, sol_x, solverState)
    /\ calibration' = [calibration EXCEPT !.states = Take(sol_x, NS),
                                          !.controls = Drop(sol_x, NS)]
    /\ pc' = "done"
    /\ UNCHANGED <<runtime, model, callNo, args, locals, work, solver, prev>>

\* lines 58-60
Return ==
    /\ pc = "l58"
    /\ outcome' = ReturnValue(NS, sol_x, solverState)
    /\ pc' = "done"
    /\ UNCHANGED <<runtime, model, calibration, callNo, args, locals, work, solver, prev>>

Next ==
    \/ Call
    \/ ReadCalibration
    \/ NormaliseShocks
    \/ NormaliseForceValues
    \/ EstimateJacobian
    \/ ReturnJacobian
    \/ RankDiagnostic
    \/ SolverStart
    \/ SolverStep
    \/ SolverConverged
    \/ SolverStagnated
    \/ SolverMaxIter
    \/ Return

Spec == Init /\ [][Next]_vars

\* ------------------------------------------------------------ the claims
Names == Symbols(model).states
NU == Len(Calibration(model).states) + Len(Calibration(model).controls)
Z0 == Calibration(model).states \o Calibration(model).controls
Done == pc = "done"
PastNormalisation == pc \in {"l45", "l47", "l56", "solve", "l58", "done"}
NonConverged == solverState \in {"MaxIterationsExceeded", "StepStagnated"}

\* the constraints of the running call in the order the specification lists
\* them: by position for a vector, by iteration order for a mapping
ConstraintSeq ==
    IF args.force.kind = "dict"
    THEN [i \in 1..Len(args.force.map) |->
            <<IndexOf(Names, args.force.map[i].k), args.force.map[i].v>>]
    ELSE [i \in 1..Len(FinitePositions(args.force.pos)) |->
            <<FinitePositions(args.force.pos)[i],
              args.force.pos[FinitePositions(args.force.pos)[i]].v>>]

\* the residual layout written out from transition and arbitrage alone
ExpectedRes(y) ==
    LET ns == Len(Calibration(model).states)
        nx == Len(Calibration(model).controls)
        s == Take(y, ns)
        x == Drop(y, ns)
        S == Transition(model, s, x, e, Calibration(model).parameters)
        r == Arbitrage(model, s, x, s, x, Calibration(model).parameters)
        cs == ConstraintSeq
    IN  [i \in 1..(ns + nx + Len(cs)) |->
            IF i <= ns THEN S[i] - s[i]
            ELSE IF i <= ns + nx THEN r[i - ns]
            ELSE S[cs[i - ns - nx][1]] - cs[i - ns - nx][2]]

\* C1: whenever the root solver ends MaxIterationsExceeded or StepStagnated,
\* the value find_steady_state returns differs from the value it returns for
\* a converged solve ending at the same point, so the caller can tell a
\* best-effort non-root from a converged root.
C1_NonConvergenceSurfaced ==
    (Done /\ NonConverged /\ outcome.kind = "pair")
        => outcome # ReturnValue(NS, sol_x, "Converged")

BadName == args.force.kind = "dict" /\ ~WellFormed(args.force, Names)

\* C2: a force mapping naming a symbol that is no state symbol makes the call
\* fail with the lookup error (ValueError) at the normalisation, and the call
\* has done no numeric work at any point: no transition or arbitrage
\* evaluation, no Jacobian, no rank check, no solver.
C2_InvalidNameFailsFast ==
    BadName =>
        /\ work = {}
        /\ solverState = "None"
        /\ PastNormalisation => (Done /\ outcome = Raised("ValueError"))
C2_Witness == BadName /\ Done /\ outcome = Raised("ValueError")

BadLength ==
    args.force.kind \in {"list", "array"} /\ Len(args.force.pos) # Len(Names)

\* C3: a positional force vector whose length is not the number of state
\* symbols makes the call fail with an error, whatever its length and
\* entries, before any numeric work.
C3_LengthMismatchFailsFast ==
    BadLength =>
        /\ work = {}
        /\ Done => outcome.kind = "raise"

\* C4: with return_jacobian true the call never runs the rank diagnostic,
\* never warns and never starts the solver, and what it returns is the
\* Jacobian of the residual at the calibrated guess z0: one row per residual
\* entry, ns+nx columns, column j the difference of the residual along
\* coordinate j.
C4_ReturnJacobianShortCircuits ==
    args.rj =>
        /\ work \cap {"rank", "solver"} = {}
        /\ ~warned
        /\ solverState = "None"
        /\ Done => outcome.kind \in {"jac", "raise"}
        /\ (Done /\ outcome.kind = "jac") =>
              /\ Len(outcome.jac) = Len(ExpectedRes(Z0))
              /\ \A i \in 1..Len(outcome.jac) :
                    /\ Len(outcome.jac[i]) = NU
                    /\ \A j \in 1..NU :
                          outcome.jac[i][j]
                              = ExpectedRes(Bump(Z0, j))[i] - ExpectedRes(Z0)[i]
C4_Witness ==
    Done /\ args.rj /\ outcome.kind = "jac" /\ Len(outcome.jac) > NU

\* C5: once the rank diagnostic has run, the warning has been emitted exactly
\* when the rank of the Jacobian at the initial guess is below ns+nx, and in
\* either case the call goes on to the solver, which starts from the
\* calibrated guess, and ends by returning the solver's result.
C5_RankDiagnosticNeverBlocks ==
    ("rank" \in work) =>
        /\ warned <=> (MatrixRank(jac, NU) < NU)
        /\ pc \in {"l56", "solve", "l58", "done"}
        /\ (pc # "l56") => ("solver" \in work)
        /\ (solverState = "Initialized") => (sol_x = Z0)
        /\ Done => outcome.kind = "pair"
C5_Witness ==
    Done /\ "rank" \in work /\ "solver" \in work /\ warned /\ outcome.kind = "pair"

\* C6: for every z of length ns+nx, fobj(z) is transition - s in entries
\* 0..ns-1, arbitrage in entries ns..ns+nx-1 and, only with a force
\* specification, one entry S[index] - target per constraint: length ns+nx
\* unconstrained, ns+nx+k with k constraints.
C6_ResidualLayout ==
    (pc = "l47") =>
        \A y \in [1..NU -> Grid] :
            /\ F(y).exc = ""
            /\ F(y).res = ExpectedRes(y)
            /\ Len(F(y).res) = NU + (IF Forced THEN Len(ConstraintSeq) ELSE 0)
C6_Witness ==
    /\ pc = "l47"
    /\ args.force.kind = "dict"
    /\ Len(args.force.map) = 2
    /\ args.force.map[1].k = "b"
    /\ Len(fz) = NU + 2

C8_PositionalAndMappingAgree ==
    (/\ Done /\ prev.valid
     /\ prev.args.e = args.e /\ prev.args.rj = args.rj
     /\ prev.args.force.kind \in {"list", "array"}
     /\ args.force.kind = "dict"
     /\ WellFormed(prev.args.force, Names) /\ WellFormed(args.force, Names)
     /\ Constraints(prev.args.force, Names) = Constraints(args.force, Names))
        => (fz = prev.fz /\ jac = prev.jac /\ outcome = prev.outcome)

ShocksNoneVersusZero ==
    /\ prev.valid
    /\ prev.args.force = args.force /\ prev.args.rj = args.rj
    /\ \/ (~prev.args.e.given /\ IsZeroShock(args.e, Len(Symbols(model).shocks)))
       \/ (~args.e.given /\ IsZeroShock(prev.args.e, Len(Symbols(model).shocks)))

\* C9: a call with e=None and a call with an explicit zero vector of the
\* shock count, otherwise with the same arguments, use the same shock vector
\* (zeros), and have the same residual, Jacobian, warning decision and result.
C9_NoneShocksAreZeros ==
    (Done /\ ShocksNoneVersusZero) =>
        /\ e = Zeros(Len(Symbols(model).shocks))
        /\ e = prev.e
        /\ fz = prev.fz /\ jac = prev.jac
        /\ warned = prev.warned
        /\ outcome = prev.outcome
C9_Witness ==
    Done /\ ShocksNoneVersusZero /\ outcome.kind = "pair" /\ iter >= 1

\* C10: two calls in succession with identical arguments return identical
\* results, and no call writes model.calibration, from which each call
\* rebuilds its initial guess.
C10_Idempotent ==
    /\ calibration = Calibration(model)
    /\ (pc \notin {"idle", "l16"}) => (z = Z0)
    /\ (Done /\ prev.valid /\ prev.args = args) =>
          (outcome = prev.outcome /\ jac = prev.jac /\ warned = prev.warned)
C10_Witness ==
    /\ Done /\ prev.valid /\ prev.args = args
    /\ outcome.kind = "pair" /\ iter >= 1 /\ outcome.s # calibration.states

====
